---------------------------- MODULE Spec2Model ----------------------------
(***************************************************************************)
(* GrievancePortal image classifier: the serving process of               *)
(* ai_model/main.py (startup, /health, /classify), the confidence tier    *)
(* function, and the epoch loop of ai_model/train.py.                     *)
(*                                                                         *)
(* Probabilities are fixed-point integers in units of 1/Unit (1e-6), so   *)
(* 0.70 is 700000 and the 4-digit rounding quantum is 100 units.          *)
(* Not modelled: the tensor arithmetic of the forward pass (its outcome   *)
(* is a nondeterministic top probability), DEVICE, and the category,      *)
(* raw_label and all_scores fields of the response.  Requests in flight   *)
(* are anonymous: the state counts the suspended coroutines per upload.   *)
(***************************************************************************)
EXTENDS Integers, Sequences, FiniteSets

\* ------------------------------------------------------------------ bounds

\* concurrent /classify requests in flight
MaxReq == 2
\* largest head width a weights file found on disk may have
MaxHead == 7
\* probabilities tried on each side of every tier and rounding boundary
NearWidth == 1
\* evenly spaced probabilities tried across [0,1]
GridSteps == 4
\* largest --epochs argument
MaxEpochs == 3
\* validation samples (val_acc = correct / ValTotal)
ValTotal == 2
\* largest number of class directories in the training set
MaxDirs == 5

\* ------------------------------------------------------------- fixed point

Unit == 10^6
Cent == Unit \div 100
\* round(x, 4): one step of the fourth decimal digit
Quantum == Unit \div 10^4

\* ---------------------------------------------------------------- registry

CATEGORIES ==
    << "Damaged Road Issue", "Fallen Trees", "Garbage and Trash Issue",
       "Illegal Drawing on Walls", "Street Light Issue", "Other" >>

NUM_CLASSES == Len(CATEGORIES)

TRAIN_CATEGORIES ==
    << "DamagedRoads", "ElectricityIssues", "GarbageAndSanitation", "Other" >>

TRAIN_NUM_CLASSES == Len(TRAIN_CATEGORIES)

\* ------------------------------------------------------------------- state

VARIABLES
    weights,    \* the file at MODEL_WEIGHTS_PATH: NoFile or a saved state dict
    model,      \* the global model of main.py: None or the loaded network
    phase,      \* "starting", "ready" (startup returned), "failed" (it raised)
    loads,      \* how many times load_model has run
    reqs,       \* /classify coroutines suspended at image.read(), counted
                \* per upload (by its index in UploadList)
    resp,       \* the response the server sent last
    tp,         \* _confidence_label: the probability of the current call
    tt,         \* _confidence_label: the tier it returned
    tprev,      \* _confidence_label: the previous call's probability and tier
    tpc,        \* trainer: position in main()
    epochs,     \* trainer: args.epochs
    hasVal,     \* trainer: whether dataset/val exists
    hasTrain,   \* trainer: whether dataset/train exists
    dirs,       \* trainer: number of class directories under dataset/train
    epoch,      \* trainer: the epoch just completed
    best_val_acc, \* trainer: numerator of the best validation accuracy
    best_epoch, \* trainer: the epoch that reached it
    history,    \* trainer: per-epoch rows (the validation numerator, or -1)
    output,     \* trainer: the file at args.output
    printed     \* trainer: lines reported at the end of main()

serverVars == << weights, model, phase, loads, reqs, resp >>
tierVars == << tp, tt, tprev >>
trainVars == << tpc, epochs, hasVal, hasTrain, dirs, epoch, best_val_acc,
                best_epoch, history, output, printed >>
vars == << weights, model, phase, loads, reqs, resp, tp, tt, tprev,
           tpc, epochs, hasVal, hasTrain, dirs, epoch, best_val_acc,
           best_epoch, history, output, printed >>

None == [kind |-> "None"]
NoFile == [kind |-> "absent"]

\* a state dict on disk, as torch.save(model.state_dict(), path) writes it
StateDict(head, ep) == [kind |-> "state_dict", head |-> head, epoch |-> ep]

\* ------------------------------------------------------- confidence tiers

\* the tiers with boundaries exclusive on the lower bound
_confidence_label_strict(prob) ==
    IF prob > 70 * Cent THEN "high"
    ELSE IF prob > 40 * Cent THEN "medium"
    ELSE IF prob > 20 * Cent THEN "low"
    ELSE "none"

\* _confidence_label(prob): 0.70, 0.40 and 0.20 compared with >=
_confidence_label(prob) ==
    IF prob >= 70 * Cent THEN "high"
    ELSE IF prob >= 40 * Cent THEN "medium"
    ELSE IF prob >= 20 * Cent THEN "low"
    ELSE "none"

\* p / Unit is a dyadic rational, so a double holds it exactly
IsDyadic(p) == p % (5^6) = 0

\* p lies exactly half way between two 4-digit values
IsTie(p) == 2 * (p % Quantum) = Quantum

\* round(top_prob, 4).  Python rounds the double's exact value to the nearest
\* 4-digit value, and an exact tie to the even digit.  Only a dyadic tie is a
\* double at all: no other tie is among the probabilities tried.
round4(p) ==
    LET lo == (p \div Quantum) * Quantum
        hi == lo + Quantum
        r  == p % Quantum
    IN  IF 2 * r < Quantum THEN lo
        ELSE IF 2 * r > Quantum THEN hi
        ELSE IF (lo \div Quantum) % 2 = 0 THEN lo ELSE hi

\* ------------------------------------------------------------------ inputs

Boundaries == { 20 * Cent, 40 * Cent, 70 * Cent }

Near(c) == { q \in (c - NearWidth)..(c + NearWidth) : q >= 0 /\ q <= Unit }

\* the probabilities tried: around each tier boundary, around the rounding
\* midpoint just below it, an even grid, and the dyadic ties 7/32 and 9/32
Candidates ==
    UNION { Near(b) \cup Near(b - Quantum \div 2) : b \in Boundaries }
    \cup { (k * Unit) \div GridSteps : k \in 0..GridSteps }
    \cup { (7 * Unit) \div 32, (9 * Unit) \div 32 }

Probs == { p \in Candidates : IsTie(p) => IsDyadic(p) }

\* UploadFile.content_type: absent, or a string (as its characters)
NoContentType == [present |-> FALSE, chars |-> << >>]
ContentType(chars) == [present |-> TRUE, chars |-> chars]

ContentTypes ==
    { NoContentType,
      ContentType(<< >>),
      ContentType(<< "i","m","a","g","e","/","p","n","g" >>),
      ContentType(<< "t","e","x","t","/","p","l","a","i","n" >>),
      ContentType(<< "i","m","a","g","e" >>) }

\* the uploaded bytes: their length, whether PIL identifies an image format
\* in them (Image.open), and whether the pixel data is complete (convert)
Payload(len, identified, complete) ==
    [len |-> len, identified |-> identified, complete |-> complete]

Payloads ==
    { Payload(0, FALSE, FALSE),     \* empty upload
      Payload(1, FALSE, FALSE),     \* a text file
      Payload(1, TRUE, FALSE),      \* a truncated image
      Payload(1, TRUE, TRUE) }      \* a valid image

\* an upload: the declared content type and the bytes
Uploads == ContentTypes \X Payloads

\* the uploads in a fixed order, to index the counts of reqs
RECURSIVE Listed(_)
Listed(S) ==
    IF S = {} THEN << >>
    ELSE LET x == CHOOSE y \in S : TRUE
         IN  << x >> \o Listed(S \ {x})

UploadList == Listed(Uploads)

RECURSIVE Total(_, _)
Total(f, n) ==
    IF n = 0 THEN 0
    ELSE f[n] + Total(f, n - 1)

Slot(ct, pl) == CHOOSE i \in 1..Len(UploadList) : UploadList[i] = << ct, pl >>

\* the number of /classify coroutines suspended at their await
InFlight == Total(reqs, Len(UploadList))

NoResponse ==
    [op |-> "none", status |-> 0, ctype |-> NoContentType,
     payload |-> Payload(0, FALSE, FALSE), loaded |-> FALSE, phase |-> "starting",
     decoded |-> FALSE, forwarded |-> FALSE, text |-> "", confidence |-> "",
     top_prob |-> 0, confidence_score |-> 0, model_loaded |-> FALSE]


\* ------------------------------------------------------------ model loading

\* build_model(): MobileNetV3-Small whose last classifier layer is replaced
\* by nn.Linear(in_features, NUM_CLASSES); tuned says whether fine-tuned
\* parameters were loaded into it
build_model == [kind |-> "network", head |-> NUM_CLASSES, tuned |-> FALSE]

\* load_state_dict without its strict shape check
load_state_dict_lenient(m, state) ==
    [raised |-> FALSE, model |-> [m EXCEPT !.tuned = TRUE]]

\* m.load_state_dict(state): every parameter of the file must have the shape
\* of the parameter it is copied into, or RuntimeError is raised
load_state_dict(m, state) ==
    IF state.head = m.head
    THEN [raised |-> FALSE, model |-> [m EXCEPT !.tuned = TRUE]]
    ELSE [raised |-> TRUE, model |-> m]

\* load_model(): the built network, with the file's parameters when
\* MODEL_WEIGHTS_PATH exists
load_model(w) ==
    LET m == build_model
    IN  IF w # NoFile
        THEN load_state_dict(m, w)
        ELSE [raised |-> FALSE, model |-> m]

\* startup that runs again after the model is set
startup_again ==
    /\ phase \in {"starting", "ready"}
    /\ loads' = loads + 1
    /\ LET r == load_model(weights)
       IN  IF r.raised
           THEN /\ phase' = "failed"
                /\ model' = model
           ELSE /\ phase' = "ready"
                /\ model' = r.model
    /\ UNCHANGED << weights, reqs, resp >>

\* @app.on_event("startup"): model = load_model(); an exception raised by
\* load_model leaves the global unassigned and ends the startup
startup ==
    /\ phase = "starting"
    /\ loads' = loads + 1
    /\ LET r == load_model(weights)
       IN  IF r.raised
           THEN /\ phase' = "failed"
                /\ model' = model
           ELSE /\ phase' = "ready"
                /\ model' = r.model
    /\ UNCHANGED << weights, reqs, resp >>

\* ------------------------------------------------------------------ /health

\* a health body that reports the model loaded unconditionally
health_body_always(m) == [status |-> 200, text |-> "ok", model_loaded |-> TRUE]

\* {"status": "ok", "device": DEVICE, "model_loaded": model is not None}
health_body(m) == [status |-> 200, text |-> "ok", model_loaded |-> m # None]

\* GET /health
health ==
    /\ LET b == health_body(model)
       IN  resp' = [NoResponse EXCEPT !.op = "health", !.status = b.status,
                       !.text = b.text, !.model_loaded = b.model_loaded,
                       !.loaded = (model # None), !.phase = phase]
    /\ UNCHANGED << weights, model, phase, loads, reqs >>

\* ---------------------------------------------------------------- /classify

\* s.startswith(prefix)
StartsWith(s, prefix) ==
    /\ Len(s) >= Len(prefix)
    /\ SubSeq(s, 1, Len(prefix)) = prefix

ImagePrefix == << "i","m","a","g","e","/" >>

\* a content type check that also rejects an absent content type
content_type_rejected_absent(ct) ==
    ~ (ct.present /\ StartsWith(ct.chars, ImagePrefix))

\* image.content_type and not image.content_type.startswith("image/")
content_type_rejected(ct) ==
    /\ ct.present
    /\ Len(ct.chars) > 0
    /\ ~ StartsWith(ct.chars, ImagePrefix)

\* the intake checks with the content type tested before the model
intake_type_first(m, ct) ==
    IF content_type_rejected(ct) THEN 400
    ELSE IF m = None THEN 503
    ELSE 0

\* the checks of classify before it awaits the upload's bytes: the status
\* raised, or 0 to go on
intake(m, ct) ==
    IF m = None THEN 503
    ELSE IF content_type_rejected(ct) THEN 400
    ELSE 0

\* the decode with only Image.open inside the try: a failing convert
\* escapes the handler (500)
decode_open_only(pl) ==
    IF ~ pl.identified THEN 422
    ELSE IF ~ pl.complete THEN 500
    ELSE 0

\* Image.open(io.BytesIO(raw_bytes)).convert("RGB") under except Exception:
\* 422 when open does not identify an image or convert cannot load the
\* pixel data, else 0
decode(pl) ==
    IF pl.identified /\ pl.complete THEN 0 ELSE 422

\* the checks of classify after the bytes are read: the status raised (0 to
\* go on) and whether the decode was attempted
after_read(pl) ==
    IF pl.len = 0 THEN [status |-> 400, decoded |-> FALSE]
    ELSE [status |-> decode(pl), decoded |-> TRUE]

\* the response of a raised HTTPException (500: an exception that escaped
\* the handler); loaded and phase record what the handler saw on entry
Rejection(status, ct, pl, loaded, decoded) ==
    [NoResponse EXCEPT !.op = "classify", !.status = status, !.ctype = ct,
                       !.payload = pl, !.loaded = loaded, !.phase = phase,
                       !.decoded = decoded]

\* ClassifyResponse with the tier taken from the rounded score
classify_response_from_score(ct, pl, top_prob, score) ==
    [NoResponse EXCEPT !.op = "classify", !.status = 200, !.ctype = ct,
                       !.payload = pl, !.loaded = TRUE, !.phase = phase,
                       !.decoded = TRUE, !.forwarded = TRUE,
                       !.top_prob = top_prob,
                       !.confidence = _confidence_label(score),
                       !.confidence_score = score]

\* ClassifyResponse(category=top_cat, confidence=_confidence_label(top_prob),
\*                  confidence_score=round(top_prob, 4), ...)
classify_response(ct, pl, top_prob, score) ==
    [NoResponse EXCEPT !.op = "classify", !.status = 200, !.ctype = ct,
                       !.payload = pl, !.loaded = TRUE, !.phase = phase,
                       !.decoded = TRUE, !.forwarded = TRUE,
                       !.top_prob = top_prob,
                       !.confidence = _confidence_label(top_prob),
                       !.confidence_score = score]

\* softmax over m.head logits: the largest probability is at least 1/head
TopProbs(m) == { p \in Probs : p * m.head >= Unit }

\* classify up to its await: 503, 400, or suspended in image.read()
classify_begin(ct, pl) ==
    /\ InFlight < MaxReq
    /\ LET s == intake(model, ct)
       IN  IF s # 0
           THEN /\ resp' = Rejection(s, ct, pl, model # None, FALSE)
                /\ reqs' = reqs
           ELSE /\ reqs' = [reqs EXCEPT ![Slot(ct, pl)] = @ + 1]
                /\ resp' = resp
    /\ UNCHANGED << weights, model, phase, loads >>

\* classify from the return of image.read() to its response
classify_resume(i) ==
    /\ reqs[i] > 0
    /\ reqs' = [reqs EXCEPT ![i] = @ - 1]
    /\ LET ct == UploadList[i][1]
           pl == UploadList[i][2]
           a == after_read(pl)
       IN  IF a.status # 0
           THEN resp' = Rejection(a.status, ct, pl, TRUE, a.decoded)
           ELSE IF model = None
           THEN \* model(tensor) on None: TypeError escapes the handler
                resp' = Rejection(500, ct, pl, TRUE, TRUE)
           ELSE \E p \in TopProbs(model) :
                  resp' = classify_response(ct, pl, p, round4(p))
    /\ UNCHANGED << weights, model, phase, loads >>

\* ------------------------------------------------------- confidence calls

\* a call of _confidence_label on tp
tier_call ==
    /\ tt = "pending"
    /\ tt' = _confidence_label(tp)
    /\ UNCHANGED << tp, tprev >>

\* the next call, on any probability
tier_next ==
    /\ tt # "pending"
    /\ tprev' = [p |-> tp, t |-> tt]
    /\ tp' \in Probs
    /\ tt' = "pending"

\* ----------------------------------------------------------------- trainer

\* the largest validation numerator of the rows so far
RECURSIVE MaxOf(_)
MaxOf(h) ==
    IF h = << >> THEN -1
    ELSE LET m == MaxOf(Tail(h))
         IN  IF Head(h) >= m THEN Head(h) ELSE m

\* main() up to the epoch loop: without dataset/train it prints an error
\* and returns; otherwise datasets, loaders, model, optimiser, the output
\* directory, history = [], best_val_acc = 0.0, best_epoch = 0
train_setup ==
    /\ tpc = "start"
    /\ tpc' = IF hasTrain THEN "loop" ELSE "returned"
    /\ history' = << >>
    /\ best_val_acc' = 0
    /\ best_epoch' = 0
    /\ UNCHANGED << epochs, hasVal, hasTrain, dirs, epoch, output, printed >>

\* improved = val_acc > best_val_acc; if improved: best_val_acc = val_acc,
\* best_epoch = epoch, torch.save(model.state_dict(), output_path)
save_if_improved(e, v) ==
    IF v > best_val_acc
    THEN /\ best_val_acc' = v
         /\ best_epoch' = e
         /\ output' = StateDict(TRAIN_NUM_CLASSES, e)
    ELSE UNCHANGED << best_val_acc, best_epoch, output >>

\* one iteration of the epoch loop.  ImageFolder numbers the labels by the
\* sorted class directories; a label that is not below the head width makes
\* the loss raise, which ends main()
train_epoch ==
    /\ tpc = "loop"
    /\ epoch < epochs
    /\ IF dirs > TRAIN_NUM_CLASSES
       THEN /\ tpc' = "raised"
            /\ UNCHANGED << epoch, best_val_acc, best_epoch, history, output >>
       ELSE /\ tpc' = tpc
            /\ epoch' = epoch + 1
            /\ IF hasVal
               THEN \E v \in 0..ValTotal :
                       /\ save_if_improved(epoch + 1, v)
                       /\ history' = Append(history, v)
               ELSE /\ output' = StateDict(TRAIN_NUM_CLASSES, epoch + 1)
                    /\ history' = Append(history, -1)
                    /\ UNCHANGED << best_val_acc, best_epoch >>
    /\ UNCHANGED << epochs, hasVal, hasTrain, dirs, printed >>

\* after the loop: "Best val accuracy" (with a validation set) and
\* "Weights saved to", whatever the loop did
train_report ==
    /\ tpc = "loop"
    /\ epoch = epochs
    /\ printed' = printed \cup (IF hasVal THEN {"Best val accuracy"} ELSE {})
                          \cup {"Weights saved to"}
    /\ tpc' = "history"
    /\ UNCHANGED << epochs, hasVal, hasTrain, dirs, epoch, best_val_acc,
                    best_epoch, history, output >>

\* json.dump(history, ...) and "History saved to"
train_save_history ==
    /\ tpc = "history"
    /\ printed' = printed \cup {"History saved to"}
    /\ tpc' = "done"
    /\ UNCHANGED << epochs, hasVal, hasTrain, dirs, epoch, best_val_acc,
                    best_epoch, history, output >>

\* -------------------------------------------------------- specifications

ServerInit ==
    /\ weights \in {NoFile} \cup { StateDict(n, 0) : n \in 1..MaxHead }
    /\ model = None
    /\ phase = "starting"
    /\ loads = 0
    /\ reqs = [i \in 1..Len(UploadList) |-> 0]
    /\ resp = NoResponse

TierInit ==
    /\ tp \in Probs
    /\ tt = "pending"
    /\ tprev = [p |-> 0, t |-> "none"]

TierIdle ==
    /\ tp = 0
    /\ tt = "pending"
    /\ tprev = [p |-> 0, t |-> "none"]

ServerIdle ==
    /\ weights = NoFile
    /\ model = None
    /\ phase = "starting"
    /\ loads = 0
    /\ reqs = [i \in 1..Len(UploadList) |-> 0]
    /\ resp = NoResponse

TrainIdle ==
    /\ tpc = "start"
    /\ epochs = 0
    /\ hasVal = FALSE
    /\ hasTrain = FALSE
    /\ dirs = 1
    /\ epoch = 0
    /\ best_val_acc = 0
    /\ best_epoch = 0
    /\ history = << >>
    /\ output = NoFile
    /\ printed = {}

Init == ServerInit /\ TierIdle /\ TrainIdle

Next ==
    \/ startup /\ UNCHANGED tierVars /\ UNCHANGED trainVars
    \/ health /\ UNCHANGED tierVars /\ UNCHANGED trainVars
    \/ \E ct \in ContentTypes, pl \in Payloads :
          classify_begin(ct, pl) /\ UNCHANGED tierVars /\ UNCHANGED trainVars
    \/ \E i \in 1..Len(UploadList) :
          classify_resume(i) /\ UNCHANGED tierVars /\ UNCHANGED trainVars

Spec == Init /\ [][Next]_vars

TierStart == ServerIdle /\ TierInit /\ TrainIdle

TierStep ==
    \/ tier_call /\ UNCHANGED serverVars /\ UNCHANGED trainVars
    \/ tier_next /\ UNCHANGED serverVars /\ UNCHANGED trainVars

TierSpec == TierStart /\ [][TierStep]_vars

TrainInit ==
    /\ tpc = "start"
    /\ epochs \in 0..MaxEpochs
    /\ hasVal \in BOOLEAN
    /\ hasTrain \in BOOLEAN
    /\ dirs \in 1..MaxDirs
    /\ epoch = 0
    /\ best_val_acc = 0
    /\ best_epoch = 0
    /\ history = << >>
    /\ output \in {NoFile, StateDict(TRAIN_NUM_CLASSES, 0)}
    /\ printed = {}

TrainStart == ServerIdle /\ TierIdle /\ TrainInit

TrainStep ==
    \/ train_setup /\ UNCHANGED serverVars /\ UNCHANGED tierVars
    \/ train_epoch /\ UNCHANGED serverVars /\ UNCHANGED tierVars
    \/ train_report /\ UNCHANGED serverVars /\ UNCHANGED tierVars
    \/ train_save_history /\ UNCHANGED serverVars /\ UNCHANGED tierVars

TrainSpec == TrainStart /\ [][TrainStep]_vars

\* ------------------------------------------------------------------ claims

ImagePng == ContentType(<< "i","m","a","g","e","/","p","n","g" >>)
TextPlain == ContentType(<< "t","e","x","t","/","p","l","a","i","n" >>)
ValidImage == Payload(1, TRUE, TRUE)
TextFile == Payload(1, FALSE, FALSE)

\* a content type is declared (not None, not "") and lacks the image/ prefix
DeclaredNonImage(ct) ==
    /\ ct.present
    /\ ct.chars # << >>
    /\ \/ Len(ct.chars) < 6
       \/ << ct.chars[1], ct.chars[2], ct.chars[3], ct.chars[4], ct.chars[5],
             ct.chars[6] >> # << "i","m","a","g","e","/" >>

\* the tiers as section 4.4 of the specification lists them
TierOf(p) ==
    CASE p >= 70 * Cent -> "high"
      [] p >= 40 * Cent /\ p < 70 * Cent -> "medium"
      [] p >= 20 * Cent /\ p < 40 * Cent -> "low"
      [] p < 20 * Cent -> "none"

Rank(t) ==
    CASE t = "none" -> 0
      [] t = "low" -> 1
      [] t = "medium" -> 2
      [] t = "high" -> 3

\* C1: a /classify request handled while the model is None is answered 503
\* whatever its content type and payload, before the 400 and 422 checks; no
\* request gets past the not-ready check, is decoded or runs a forward pass
\* while the model is None.
C1_NotReadyIs503 ==
    /\ (resp.op = "classify" /\ ~ resp.loaded) =>
          (resp.status = 503 /\ ~ resp.decoded /\ ~ resp.forwarded)
    /\ (resp.op = "classify" /\ resp.status = 503) => ~ resp.loaded
    /\ model = None => InFlight = 0

C1_Witness ==
    /\ resp.op = "classify"
    /\ resp.status = 503
    /\ resp.ctype = TextPlain
    /\ resp.payload.len = 0
    /\ model = None

\* C2: with the model loaded, a declared content type without the image/
\* prefix gives 400 (also for valid image bytes), an empty payload gives 400
\* (also without a content type or with an image/ one), nothing else gives
\* 400 (an absent content type is no ground for it), and a 400 request is
\* neither decoded nor forwarded.
C2_Intake400 ==
    (resp.op = "classify" /\ resp.loaded) =>
        /\ DeclaredNonImage(resp.ctype) => resp.status = 400
        /\ resp.payload.len = 0 => resp.status = 400
        /\ resp.status = 400 =>
              /\ DeclaredNonImage(resp.ctype) \/ resp.payload.len = 0
              /\ ~ resp.decoded
              /\ ~ resp.forwarded

C2_Witness ==
    /\ resp.op = "classify"
    /\ resp.loaded
    /\ resp.status = 400
    /\ resp.ctype = TextPlain
    /\ resp.payload = ValidImage

\* C3: with the model loaded, a request that passes intake (no declared
\* non-image content type, non-empty payload) whose bytes cannot be opened
\* or converted to RGB is answered 422 after the decode attempt and runs no
\* forward pass; 422 is given to no other request.
C3_Undecodable422 ==
    (resp.op = "classify" /\ resp.loaded) =>
        /\ ( /\ ~ DeclaredNonImage(resp.ctype)
             /\ resp.payload.len > 0
             /\ ~ (resp.payload.identified /\ resp.payload.complete) )
           => (resp.status = 422 /\ resp.decoded /\ ~ resp.forwarded)
        /\ resp.status = 422 =>
              ~ (resp.payload.identified /\ resp.payload.complete)

C3_Witness ==
    /\ resp.op = "classify"
    /\ resp.status = 422
    /\ resp.ctype = ImagePng
    /\ resp.payload = TextFile

\* C4: /health can be answered in every state, always with 200 and "ok", and
\* its model_loaded is true exactly when startup has completed (phase
\* "ready"), with fine-tuned weights or with the backbone alone.
C4_HealthTruthful ==
    /\ ENABLED health
    /\ health_body(model).status = 200
    /\ health_body(model).model_loaded = (phase = "ready")
    /\ resp.op = "health" =>
          /\ resp.status = 200
          /\ resp.text = "ok"
          /\ resp.model_loaded = (resp.phase = "ready")

C4_Witness ==
    /\ resp.op = "health"
    /\ resp.model_loaded
    /\ model # None
    /\ ~ model.tuned
    /\ weights = NoFile

\* C5: load_model runs at most once; the global model changes only in the
\* startup step, from None to the loaded network, and once set it never
\* changes, whatever requests are handled or in flight.
C5_LoadedOnce ==
    /\ [](loads <= 1)
    /\ [][ /\ model # None => model' = model
           /\ model' # model =>
                 /\ model = None
                 /\ phase = "starting"
                 /\ phase' = "ready"
                 /\ loads' = 1
                 /\ resp' = resp
                 /\ reqs' = reqs ]_vars

C5_Witness ==
    /\ loads = 1
    /\ model # None
    /\ InFlight = MaxReq
    /\ resp.op = "classify"
    /\ resp.status = 200

\* C6: with a weights file whose head width differs from the number of
\* serving categories, load_model raises: the model stays None, the service
\* is never ready and never answers 200 or runs a forward pass; without a
\* weights file a completed load leaves the backbone-only model and the
\* service ready.
C6_MismatchIsFatal ==
    /\ (weights # NoFile /\ weights.head # NUM_CLASSES) =>
          /\ model = None
          /\ phase # "ready"
          /\ resp.op = "classify" => resp.status = 503
          /\ ~ resp.forwarded
          /\ loads >= 1 => phase = "failed"
    /\ (weights = NoFile /\ loads >= 1) =>
          /\ phase = "ready"
          /\ model = [kind |-> "network", head |-> NUM_CLASSES, tuned |-> FALSE]

C6_Witness ==
    /\ weights = StateDict(TRAIN_NUM_CLASSES, 0)
    /\ phase = "failed"
    /\ model = None
    /\ resp.op = "classify"
    /\ resp.status = 503
    /\ resp.payload = ValidImage

\* C7: when the trainer has saved a weights artifact, the category list it
\* sized the head with is positionally identical to the serving list: the
\* same length and the same name at every index.
C7_SameRegistry ==
    (output.kind = "state_dict" /\ output.epoch >= 1) =>
        /\ output.head = NUM_CLASSES
        /\ Len(TRAIN_CATEGORIES) = Len(CATEGORIES)
        /\ \A i \in 1..Len(CATEGORIES) :
              i <= Len(TRAIN_CATEGORIES) /\ TRAIN_CATEGORIES[i] = CATEGORIES[i]

\* C8: the tier returned for p is high from 0.70, medium from 0.40 below
\* 0.70, low from 0.20 below 0.40, none below 0.20 (exactly one of the
\* four); it never decreases when p grows and is the same for the same p,
\* whatever the previous call was.
C8_TierIsStepFunction ==
    tt # "pending" =>
        /\ tt \in {"high", "medium", "low", "none"}
        /\ (tt = "high") <=> (tp >= 70 * Cent)
        /\ (tt = "medium") <=> (tp >= 40 * Cent /\ tp < 70 * Cent)
        /\ (tt = "low") <=> (tp >= 20 * Cent /\ tp < 40 * Cent)
        /\ (tt = "none") <=> (tp < 20 * Cent)
        /\ tprev.p <= tp => Rank(tprev.t) <= Rank(tt)
        /\ tprev.p >= tp => Rank(tprev.t) >= Rank(tt)

C8_Witness ==
    /\ tt = "high"
    /\ tp = 70 * Cent
    /\ tprev.p = 70 * Cent - 1
    /\ tprev.t = "medium"

\* C9: once main reports "Weights saved to", the output file has been
\* written by this run, and with a validation set it holds the parameters
\* of an epoch with the highest validation accuracy.
C9_SavedWhenReported ==
    "Weights saved to" \in printed =>
        /\ output.kind = "state_dict"
        /\ output.epoch >= 1
        /\ hasVal => history[output.epoch] = MaxOf(history)

\* C10 as claimed: in every 200 response the confidence tier is the tier of
\* the reported confidence_score.
C10_FieldsAgree ==
    (resp.op = "classify" /\ resp.status = 200) =>
        resp.confidence = TierOf(resp.confidence_score)

\* C10 amended: in every 200 response the confidence tier is the tier of
\* the unrounded top probability; it is the tier of the reported
\* confidence_score too, except when the top probability is below a tier
\* boundary and rounds up to it: then the score is exactly 0.2, 0.4 or 0.7
\* and the reported tier is the one just below the score's.
C10_TierOfUnrounded ==
    (resp.op = "classify" /\ resp.status = 200) =>
        /\ resp.confidence = TierOf(resp.top_prob)
        /\ 2 * (resp.confidence_score - resp.top_prob) <= Quantum
        /\ 2 * (resp.top_prob - resp.confidence_score) <= Quantum
        /\ \/ resp.confidence = TierOf(resp.confidence_score)
           \/ /\ resp.confidence_score \in { 20 * Cent, 40 * Cent, 70 * Cent }
              /\ resp.top_prob < resp.confidence_score
              /\ Rank(resp.confidence) + 1 = Rank(TierOf(resp.confidence_score))

C10_Witness ==
    /\ resp.op = "classify"
    /\ resp.status = 200
    /\ resp.confidence_score = 70 * Cent
    /\ resp.confidence = "medium"

=============================================================================
